---- MODULE Spec2Model ----
(***************************************************************************)
(* Peer-multiple stock valuation (starter-backend/gemini_utils.py).        *)
(*                                                                         *)
(* Numbers: every Python float is a fixed-point integer counting units of  *)
(* 1/SCALE (one ten-thousandth).  Inputs are drawn on a grid on which the  *)
(* quartile, median and clamp arithmetic of the code is exact; a quotient  *)
(* that is not a whole number of units is floored.  An absent (None)       *)
(* field is the value None.                                                *)
(***************************************************************************)
EXTENDS Integers, Sequences, FiniteSets, TLC

\* One dollar (or 1.0 of a ratio) in fixed-point units.
SCALE == 100 * 100

\* Python's None in an Optional[float] field.
None == 0 - 2000000000

\* Bound of the peer lists explored by SpecStats.
MaxPeers == 4

----------------------------------------------------------------------------
(* Float arithmetic helpers *)

Abs(x) == IF x < 0 THEN 0 - x ELSE x

Min(a, b) == IF a <= b THEN a ELSE b

Max(a, b) == IF a >= b THEN a ELSE b

\* floor(a * b / SCALE): the float product of two fixed-point numbers,
\* computed without leaving 32 bits.
Mul(a, b) ==
    LET qa == a \div SCALE
        ra == a % SCALE
        qb == b \div SCALE
        rb == b % SCALE
    IN  qa * qb * SCALE + qa * rb + ra * qb + (ra * rb) \div SCALE

\* floor(a * SCALE / b) for b > 0: the float quotient a / b.
RECURSIVE DivFrac(_, _, _)
DivFrac(r, b, unit) ==
    IF unit = 1 THEN 0
    ELSE ((r * 10) \div b) * (unit \div 10) + DivFrac((r * 10) % b, b, unit \div 10)

Div(a, b) == (a \div b) * SCALE + DivFrac(a % b, b, SCALE)

\* Python round(x, 2) and round(x, 3): nearest multiple of `step` units,
\* a tie going to the even multiple.
RoundTo(x, step) ==
    LET q == x \div step
        r == x % step
    IN  IF 2 * r < step THEN q * step
        ELSE IF 2 * r > step THEN (q + 1) * step
        ELSE IF q % 2 = 0 THEN q * step ELSE (q + 1) * step

Round2(x) == RoundTo(x, SCALE \div 100)

Round3(x) == RoundTo(x, SCALE \div 1000)

RECURSIVE IsqrtFrom(_, _, _)
IsqrtFrom(n, lo, hi) ==
    IF lo >= hi THEN lo
    ELSE LET mid == (lo + hi + 1) \div 2
         IN  IF mid * mid <= n THEN IsqrtFrom(n, mid, hi)
             ELSE IsqrtFrom(n, lo, mid - 1)

\* floor(sqrt(n)) for 0 <= n < 2^31.
Isqrt(n) == IsqrtFrom(n, 0, 46340)

RECURSIVE SumSeq(_)
SumSeq(s) == IF s = <<>> THEN 0 ELSE Head(s) + SumSeq(Tail(s))

RECURSIVE MaxSeq(_)
MaxSeq(s) == IF Len(s) = 1 THEN s[1] ELSE Max(Head(s), MaxSeq(Tail(s)))

----------------------------------------------------------------------------
(* pandas Series operations used by the aggregator *)

RECURSIVE InsertSorted(_, _)
InsertSorted(x, s) ==
    IF s = <<>> THEN <<x>>
    ELSE IF x <= Head(s) THEN <<x>> \o s
    ELSE <<Head(s)>> \o InsertSorted(x, Tail(s))

\* Mutant: the values are left in peer order (the sort is forgotten).
sort_values_unsorted(s) == s

RECURSIVE sort_values(_)
sort_values(s) == IF s = <<>> THEN <<>> ELSE InsertSorted(Head(s), sort_values(Tail(s)))

\* Four times Series.quantile(num/4), linear interpolation between the order
\* statistics around position (n-1)*num/4; exact in integers.
Quantile4(series, num) ==
    LET sorted == sort_values(series)
        pos4   == (Len(series) - 1) * num
        lo     == pos4 \div 4
        frac   == pos4 % 4
    IN  IF frac = 0 THEN 4 * sorted[lo + 1]
        ELSE 4 * sorted[lo + 1] + frac * (sorted[lo + 2] - sorted[lo + 1])

Quantile(series, num) == Quantile4(series, num) \div 4

Median(series) ==
    LET sorted == sort_values(series)
        n      == Len(series)
    IN  IF n % 2 = 1 THEN sorted[(n + 1) \div 2]
        ELSE (sorted[n \div 2] + sorted[n \div 2 + 1]) \div 2

Mean(series) == SumSeq(series) \div Len(series)

RECURSIVE Pow10Above(_, _)
Pow10Above(m, k) == IF m \div k <= 9999 THEN k ELSE Pow10Above(m, 10 * k)

\* Series.std() (sample standard deviation, ddof = 1) of n >= 2 values:
\* sqrt(sum((n*x - sum)^2) / (n - 1)) / n, the deviations scaled down by a
\* power of ten before squaring so that the squares stay within 32 bits.
Std(series) ==
    LET n    == Len(series)
        sum  == SumSeq(series)
        devs == [i \in 1..n |-> Abs(n * series[i] - sum)]
        k    == Pow10Above(MaxSeq(devs), 1)
        sq   == [i \in 1..n |-> (devs[i] \div k) * (devs[i] \div k)]
    IN  (Isqrt(SumSeq(sq) \div (n - 1)) * k) \div n

----------------------------------------------------------------------------
(* ValuePriceCalculationService: the peer statistics aggregator *)

\* An empty dict.
EmptyMap == [k \in {} |-> 0]

valuation_methods == <<"pe_ratio", "pb_ratio", "ps_ratio">>

quality_metrics == <<"roe", "debt_to_equity">>

Range(s) == {s[i] : i \in DOMAIN s}

\* df[col].dropna(): the non-absent values of one column, in peer order.
DropNa(peer_list, col) ==
    LET column == [i \in 1..Len(peer_list) |-> peer_list[i][col]]
    IN  SelectSeq(column, LAMBDA v : v # None)

\* Mutant: the fence uses the textbook multiplier 1.5 instead of 2.0.
remove_outliers_textbook(series) ==
    IF Len(series) < 3 THEN series
    ELSE LET Q1x4 == Quantile4(series, 1)
             Q3x4 == Quantile4(series, 3)
             IQRx4 == Q3x4 - Q1x4
             lower_bound_x8 == 2 * Q1x4 - 3 * IQRx4
             upper_bound_x8 == 2 * Q3x4 + 3 * IQRx4
         IN  SelectSeq(series, LAMBDA v : 8 * v >= lower_bound_x8 /\ 8 * v <= upper_bound_x8)

\* _remove_outliers(series, method='iqr')
\* keeps v with Q1 - 2.0*IQR <= v <= Q3 + 2.0*IQR (compared times four).
remove_outliers(series) ==
    IF Len(series) < 3 THEN series
    ELSE LET Q1x4 == Quantile4(series, 1)
             Q3x4 == Quantile4(series, 3)
             IQRx4 == Q3x4 - Q1x4
             lower_bound_x4 == Q1x4 - 2 * IQRx4
             upper_bound_x4 == Q3x4 + 2 * IQRx4
         IN  SelectSeq(series, LAMBDA v : 4 * v >= lower_bound_x4 /\ 4 * v <= upper_bound_x4)

\* "Apply reasonable caps for extreme multiples" / "Apply reasonable bounds"
ApplyCap(col, clean_series) ==
    CASE col = "pe_ratio" -> SelectSeq(clean_series, LAMBDA v : v <= 100 * SCALE)
      [] col = "pb_ratio" -> SelectSeq(clean_series, LAMBDA v : v <= 20 * SCALE)
      [] col = "ps_ratio" -> SelectSeq(clean_series, LAMBDA v : v <= 30 * SCALE)
      [] col = "roe" -> SelectSeq(clean_series,
                                  LAMBDA v : v >= 0 - SCALE \div 2 /\ v <= SCALE)
      [] col = "debt_to_equity" -> SelectSeq(clean_series, LAMBDA v : v <= 10 * SCALE)
      [] OTHER -> clean_series

\* The dict literal stored in stats[col].
StatsEntry(used, removed) ==
    [median |-> Median(used),
     mean |-> Mean(used),
     std |-> IF Std(used) > 0 THEN Std(used) ELSE 0,
     count |-> Len(used),
     outliers_removed |-> removed]
    @@ ("25th_percentile" :> Quantile(used, 1))
    @@ ("75th_percentile" :> Quantile(used, 3))

\* Mutant: outliers_removed counts only what the IQR filter removed, not
\* what the absolute cap removed afterwards.
ValuationColumnStats_precap(col, series) ==
    IF Len(series) > 2
    THEN LET clean_series == remove_outliers(series)
         IN  IF Len(clean_series) >= 2
             THEN LET capped == ApplyCap(col, clean_series)
                  IN  IF Len(capped) >= 2
                      THEN <<StatsEntry(capped, Len(series) - Len(clean_series))>>
                      ELSE <<>>
             ELSE <<>>
    ELSE IF Len(series) >= 2 THEN <<StatsEntry(series, 0)>>
    ELSE <<>>

\* One pass of the first loop (valuation multiples): <<entry>>, or <<>> when
\* no entry is stored for the column.
ValuationColumnStats(col, series) ==
    IF Len(series) > 2
    THEN LET clean_series == remove_outliers(series)
         IN  IF Len(clean_series) >= 2
             THEN LET capped == ApplyCap(col, clean_series)
                  IN  IF Len(capped) >= 2
                      THEN <<StatsEntry(capped, Len(series) - Len(capped))>>
                      ELSE <<>>
             ELSE <<>>
    ELSE IF Len(series) >= 2 THEN <<StatsEntry(series, 0)>>
    ELSE <<>>

\* One pass of the second loop (quality metrics).
QualityColumnStats(col, series) ==
    IF Len(series) > 2
    THEN LET clean_series == ApplyCap(col, remove_outliers(series))
         IN  IF Len(clean_series) >= 2
             THEN <<StatsEntry(clean_series, Len(series) - Len(clean_series))>>
             ELSE <<>>
    ELSE IF Len(series) >= 2 THEN <<StatsEntry(series, 0)>>
    ELSE <<>>

ColumnStats(peer_list, col) ==
    IF col \in Range(valuation_methods)
    THEN ValuationColumnStats(col, DropNa(peer_list, col))
    ELSE QualityColumnStats(col, DropNa(peer_list, col))

\* calculate_peer_statistics(peer_metrics): a map from the metrics that got an
\* entry to their entries; the empty map for an empty peer list.
calculate_peer_statistics(peer_list) ==
    IF peer_list = <<>> THEN EmptyMap
    ELSE LET tracked == Range(valuation_methods) \cup Range(quality_metrics)
             present == {col \in tracked : ColumnStats(peer_list, col) # <<>>}
         IN  [col \in present |-> ColumnStats(peer_list, col)[1]]

----------------------------------------------------------------------------
(* ValuePriceCalculationService: quality adjustment and per-method valuation *)

\* Python truthiness of an Optional[float]: None and 0 are false.
Truthy(x) == x # None /\ x # 0

Clamp(x, lo, hi) == Max(lo, Min(hi, x))

\* The ROE branch: the list of adjustments it appends (none or one).
roe_adjustment(target, peer_stats) ==
    IF /\ target.roe # None
       /\ target.roe > 0 - SCALE \div 2
       /\ target.roe < SCALE
       /\ "roe" \in DOMAIN peer_stats
       /\ peer_stats["roe"].count >= 2
    THEN LET peer_roe_median == peer_stats["roe"].median
             peer_roe_std == peer_stats["roe"].std
         IN  IF peer_roe_std > 0
             THEN LET roe_z_score == Div(target.roe - peer_roe_median, peer_roe_std)
                  IN  <<Clamp(Mul(roe_z_score, (5 * SCALE) \div 100),
                              0 - (15 * SCALE) \div 100, (15 * SCALE) \div 100)>>
             ELSE <<>>
    ELSE <<>>

\* The debt-to-equity branch: the list of adjustments it appends.
de_adjustment(target, peer_stats) ==
    IF /\ target.debt_to_equity # None
       /\ target.debt_to_equity >= 0
       /\ target.debt_to_equity <= 10 * SCALE
       /\ "debt_to_equity" \in DOMAIN peer_stats
       /\ peer_stats["debt_to_equity"].count >= 2
    THEN LET peer_de_median == peer_stats["debt_to_equity"].median
             peer_de_std == peer_stats["debt_to_equity"].std
         IN  IF peer_de_std > 0
             THEN LET de_z_score == Div(peer_de_median - target.debt_to_equity, peer_de_std)
                  IN  <<Clamp(Mul(de_z_score, (4 * SCALE) \div 100),
                              0 - (10 * SCALE) \div 100, (10 * SCALE) \div 100)>>
             ELSE <<>>
    ELSE <<>>

\* Mutant: the averaged adjustment is returned without converting it to a
\* multiplier (the "1.0 +" is forgotten).
calculate_quality_adjustment_no_base(target, peer_stats) ==
    LET adjustments == roe_adjustment(target, peer_stats) \o de_adjustment(target, peer_stats)
    IN  IF adjustments # <<>>
        THEN LET total_adjustment == SumSeq(adjustments) \div Len(adjustments)
             IN  Clamp(total_adjustment, 0 - (20 * SCALE) \div 100, (20 * SCALE) \div 100)
        ELSE SCALE

\* calculate_quality_adjustment(target, peer_stats): the multiplier.
calculate_quality_adjustment(target, peer_stats) ==
    LET adjustments == roe_adjustment(target, peer_stats) \o de_adjustment(target, peer_stats)
    IN  IF adjustments # <<>>
        THEN LET total_adjustment == SumSeq(adjustments) \div Len(adjustments)
             IN  SCALE + Clamp(total_adjustment,
                               0 - (20 * SCALE) \div 100, (20 * SCALE) \div 100)
        ELSE SCALE

\* Mutant: the upper limit of the relative band is 5x instead of 4x.
apply_sanity_checks_5x(value_price, current_price) ==
    LET max_price == Mul(current_price, 5 * SCALE)
        min_price == Mul(current_price, SCALE \div 4)
        relative  == Truthy(current_price) /\ current_price > 0
    IN  IF relative /\ value_price > max_price THEN max_price
        ELSE IF relative /\ value_price < min_price THEN min_price
        ELSE IF value_price < SCALE \div 100 THEN SCALE \div 100
        ELSE IF value_price > 10000 * SCALE THEN 10000 * SCALE
        ELSE value_price

\* _apply_sanity_checks(value_price, current_price, method)
apply_sanity_checks(value_price, current_price) ==
    LET max_price == Mul(current_price, 4 * SCALE)
        min_price == Mul(current_price, SCALE \div 4)
        relative  == Truthy(current_price) /\ current_price > 0
    IN  IF relative /\ value_price > max_price THEN max_price
        ELSE IF relative /\ value_price < min_price THEN min_price
        ELSE IF value_price < SCALE \div 100 THEN SCALE \div 100
        ELSE IF value_price > 10000 * SCALE THEN 10000 * SCALE
        ELSE value_price

\* The three blocks of calculate_value_price_components, in source order:
\* component name, target per-share field, peer multiple, plausibility band.
MethodNames == <<"pe_valuation", "pb_valuation", "ps_valuation">>

PerShareField(m) ==
    CASE m = "pe_valuation" -> "earnings_per_share"
      [] m = "pb_valuation" -> "book_value_per_share"
      [] m = "ps_valuation" -> "revenue_per_share"

MultipleOf(m) ==
    CASE m = "pe_valuation" -> "pe_ratio"
      [] m = "pb_valuation" -> "pb_ratio"
      [] m = "ps_valuation" -> "ps_ratio"

BandLow(m) == IF m = "pe_valuation" THEN 5 * SCALE ELSE SCALE \div 10

BandHigh(m) ==
    CASE m = "pe_valuation" -> 100 * SCALE
      [] m = "pb_valuation" -> 20 * SCALE
      [] m = "ps_valuation" -> 30 * SCALE

\* Mutant: the plausibility band excludes its end points.
MethodFires_open_band(target, peer_stats, m) ==
    /\ Truthy(target[PerShareField(m)])
    /\ target[PerShareField(m)] > 0
    /\ MultipleOf(m) \in DOMAIN peer_stats
    /\ peer_stats[MultipleOf(m)].count >= 2
    /\ BandLow(m) < peer_stats[MultipleOf(m)].median
    /\ peer_stats[MultipleOf(m)].median < BandHigh(m)

\* The two nested conditions under which a block stores its component.
MethodFires(target, peer_stats, m) ==
    /\ Truthy(target[PerShareField(m)])
    /\ target[PerShareField(m)] > 0
    /\ MultipleOf(m) \in DOMAIN peer_stats
    /\ peer_stats[MultipleOf(m)].count >= 2
    /\ BandLow(m) <= peer_stats[MultipleOf(m)].median
    /\ peer_stats[MultipleOf(m)].median <= BandHigh(m)

\* The locals of one block: base, adjusted and final (sanity-checked) price.
MethodPrices(target, peer_stats, m) ==
    LET quality_adjustment == calculate_quality_adjustment(target, peer_stats)
        base_value_price == Mul(target[PerShareField(m)], peer_stats[MultipleOf(m)].median)
        adjusted_value_price == Mul(base_value_price, quality_adjustment)
    IN  [base |-> base_value_price,
         adjusted |-> adjusted_value_price,
         final |-> apply_sanity_checks(adjusted_value_price, target.current_price)]

\* Mutant: the flag compares the final price with the base price instead of
\* the quality-adjusted price.
ComponentEntry_flag_vs_base(target, peer_stats, m) ==
    LET prices == MethodPrices(target, peer_stats, m)
    IN  [base_value_price |-> Round2(prices.base),
         quality_adjustment |-> Round3(calculate_quality_adjustment(target, peer_stats)),
         value_price |-> Round2(prices.final),
         peer_median_multiple |-> Round2(peer_stats[MultipleOf(m)].median),
         target_metric_value |-> Round2(target[PerShareField(m)]),
         confidence |-> Min(100, peer_stats[MultipleOf(m)].count * 20),
         sanity_check_applied |-> prices.final # prices.base]

\* Mutant: the confidence scale starts at the minimum sample count, so that
\* two peers give confidence 0.
ComponentEntry_confidence_from_zero(target, peer_stats, m) ==
    LET prices == MethodPrices(target, peer_stats, m)
    IN  [base_value_price |-> Round2(prices.base),
         quality_adjustment |-> Round3(calculate_quality_adjustment(target, peer_stats)),
         value_price |-> Round2(prices.final),
         peer_median_multiple |-> Round2(peer_stats[MultipleOf(m)].median),
         target_metric_value |-> Round2(target[PerShareField(m)]),
         confidence |-> Min(100, (peer_stats[MultipleOf(m)].count - 2) * 20),
         sanity_check_applied |-> prices.final # prices.adjusted]

\* The dict literal stored in components[m].
ComponentEntry(target, peer_stats, m) ==
    LET prices == MethodPrices(target, peer_stats, m)
    IN  [base_value_price |-> Round2(prices.base),
         quality_adjustment |-> Round3(calculate_quality_adjustment(target, peer_stats)),
         value_price |-> Round2(prices.final),
         peer_median_multiple |-> Round2(peer_stats[MultipleOf(m)].median),
         target_metric_value |-> Round2(target[PerShareField(m)]),
         confidence |-> Min(100, peer_stats[MultipleOf(m)].count * 20),
         sanity_check_applied |-> prices.final # prices.adjusted]

\* calculate_value_price_components(target, peer_stats)
calculate_value_price_components(target, peer_stats) ==
    LET fired == {m \in Range(MethodNames) : MethodFires(target, peer_stats, m)}
    IN  [m \in fired |-> ComponentEntry(target, peer_stats, m)]

\* The unrounded adjusted and final prices of the emitted components.
sanity_stage(target, peer_stats) ==
    LET fired == {m \in Range(MethodNames) : MethodFires(target, peer_stats, m)}
    IN  [m \in fired |-> MethodPrices(target, peer_stats, m)]

----------------------------------------------------------------------------
(* ValuePriceCalculationService: the composite blender *)

\* str.upper() on the strings the model uses.
Upper(str) ==
    CASE str = "pe_valuation" -> "PE_VALUATION"
      [] str = "pb_valuation" -> "PB_VALUATION"
      [] str = "ps_valuation" -> "PS_VALUATION"
      [] str = "goog" -> "GOOG"
      [] str = "spy" -> "SPY"
      [] OTHER -> str

\* The keys of the components dict in insertion order.
ComponentKeys(components) == SelectSeq(MethodNames, LAMBDA m : m \in DOMAIN components)

\* Mutant: several components are blended by a plain mean, the confidence
\* weights ignored.
calculate_composite_value_price_unweighted(components) ==
    LET keys == ComponentKeys(components)
        prices == [i \in 1..Len(keys) |-> components[keys[i]].value_price]
    IN  IF keys = <<>> THEN <<None, "INSUFFICIENT_DATA">>
        ELSE IF Len(keys) = 1 THEN <<components[keys[1]].value_price, Upper(keys[1])>>
        ELSE <<Round2(SumSeq(prices) \div Len(prices)), "COMPOSITE">>

\* Mutant: the single-component case is not told apart; one component is
\* blended like several and labelled COMPOSITE.
calculate_composite_value_price_always_blend(components) ==
    LET keys == ComponentKeys(components)
        weights == [i \in 1..Len(keys) |-> (components[keys[i]].confidence * SCALE) \div 100]
        total_weight == SumSeq(weights)
        weighted_sum ==
            SumSeq([i \in 1..Len(keys) |-> Mul(components[keys[i]].value_price, weights[i])])
        prices == [i \in 1..Len(keys) |-> components[keys[i]].value_price]
    IN  IF keys = <<>> THEN <<None, "INSUFFICIENT_DATA">>
        ELSE IF total_weight > 0
             THEN <<Round2(Div(weighted_sum, total_weight)), "COMPOSITE">>
        ELSE <<Round2(SumSeq(prices) \div Len(prices)), "COMPOSITE">>

\* calculate_composite_value_price(components): <<price, method>>
calculate_composite_value_price(components) ==
    LET keys == ComponentKeys(components)
        weights == [i \in 1..Len(keys) |-> (components[keys[i]].confidence * SCALE) \div 100]
        total_weight == SumSeq(weights)
        weighted_sum ==
            SumSeq([i \in 1..Len(keys) |-> Mul(components[keys[i]].value_price, weights[i])])
        prices == [i \in 1..Len(keys) |-> components[keys[i]].value_price]
    IN  IF keys = <<>> THEN <<None, "INSUFFICIENT_DATA">>
        ELSE IF Len(keys) = 1 THEN <<components[keys[1]].value_price, Upper(keys[1])>>
        ELSE IF total_weight > 0
             THEN <<Round2(Div(weighted_sum, total_weight)), "COMPOSITE">>
        ELSE <<Round2(SumSeq(prices) \div Len(prices)), "COMPOSITE">>

\* The branch of calculate_composite_value_price that returns.
composite_branch(components) ==
    LET keys == ComponentKeys(components)
        weights == [i \in 1..Len(keys) |-> (components[keys[i]].confidence * SCALE) \div 100]
        total_weight == SumSeq(weights)
    IN  IF keys = <<>> THEN "insufficient_data"
        ELSE IF Len(keys) = 1 THEN "single_method"
        ELSE IF total_weight > 0 THEN "weighted_average"
        ELSE "simple_average"

----------------------------------------------------------------------------
(* Records *)

\* EssentialMetrics(ticker=..., <fields>); fields not given stay None.
EssentialMetrics(t, mc, pe, pb, ps, cp, bvps, rps, eps, r, de) ==
    [ticker |-> t, market_cap |-> mc, pe_ratio |-> pe, pb_ratio |-> pb,
     ps_ratio |-> ps, current_price |-> cp, book_value_per_share |-> bvps,
     revenue_per_share |-> rps, earnings_per_share |-> eps, roe |-> r,
     debt_to_equity |-> de, profit_margin |-> None, revenue_growth |-> None]

\* A peer record: only the five tracked columns matter to the aggregator.
Peer(t, pe, pb, ps, r, de) ==
    EssentialMetrics(t, 1, pe, pb, ps, None, None, None, None, r, de)

\* A target record: the fields the valuator reads.
Target(cp, eps, bvps, rps, r, de) ==
    EssentialMetrics("GOOG", 1, None, None, None, cp, bvps, rps, eps, r, de)

NoMetrics == EssentialMetrics("GOOG", None, None, None, None, None, None, None, None, None, None)

\* n hundredths, as a fixed-point number (Cents(250) is 2.50).
Cents(n) == n * (SCALE \div 100)

----------------------------------------------------------------------------
(* Inputs of the aggregator: peer records covering absent values, in-range *)
(* values, values beyond the IQR fence and values beyond the absolute caps *)

PeerRecords ==
    { Peer("P1", Cents(1000), Cents(100), Cents(200), Cents(10), Cents(50)),
      Peer("P2", Cents(1200), Cents(300), Cents(400), Cents(20), Cents(100)),
      Peer("P3", Cents(1100), None, Cents(200), None, Cents(1200)),
      Peer("P4", Cents(100000), Cents(2500), Cents(3500), Cents(150), None),
      Peer("P5", None, Cents(200), None, 0 - Cents(60), Cents(200)),
      Peer("P6", Cents(15000), Cents(5), Cents(300), Cents(15), 0 - Cents(100)) }

----------------------------------------------------------------------------
(* Inputs of the valuator: target records and peer statistics maps *)

\* A statistics entry with the fields the scorer and the valuator read.
Entry(median, std, count) ==
    [median |-> median, mean |-> median, std |-> std, count |-> count,
     outliers_removed |-> 0]
    @@ ("25th_percentile" :> median) @@ ("75th_percentile" :> median)

\* A statistics map from one optional entry (<<>> or <<entry>>) per metric.
StatsMap(pe, pb, ps, r, de) ==
    LET opt == [pe_ratio |-> pe, pb_ratio |-> pb, ps_ratio |-> ps,
                roe |-> r, debt_to_equity |-> de]
    IN  [col \in {c \in DOMAIN opt : opt[c] # <<>>} |-> opt[col][1]]

PerShareCases == {None, 0, 0 - Cents(100), Cents(200)}

\* Absent, one sample, and medians just outside and on the band limits.
EntryCases(m) ==
    { <<>>,
      <<Entry(BandHigh(m), 0, 1)>>,
      <<Entry(BandLow(m) - Cents(1), 0, 2)>>,
      <<Entry(BandLow(m), 0, 2)>>,
      <<Entry(BandHigh(m), 0, 5)>>,
      <<Entry(BandHigh(m) + Cents(1), 0, 2)>> }

\* Family 1: what makes each method fire, the three methods varied freely.
GatingInputs ==
    { <<Target(Cents(10000), e, b, s, None, None), StatsMap(pe, pb, ps, <<>>, <<>>)>> :
        e \in PerShareCases, b \in PerShareCases, s \in PerShareCases,
        pe \in EntryCases("pe_valuation"), pb \in EntryCases("pb_valuation"),
        ps \in EntryCases("ps_valuation") }

\* Current prices: absent, zero, sub-cent, ordinary, and four- and
\* five-figure share prices.
CurrentPriceCases ==
    { None, 0, 24, 28, Cents(2), Cents(10000), Cents(500000), Cents(4000000),
      Cents(5000000) }

\* Family 2: prices against the sanity bands.
PriceInputs ==
    { <<Target(cp, e, b, None, r, None),
        StatsMap(<<Entry(pe, Cents(100), 3)>>, <<Entry(Cents(100), 0, 2)>>, <<>>,
                 <<Entry(Cents(10), Cents(5), 3)>>, <<>>)>> :
        cp \in CurrentPriceCases,
        e \in {10, Cents(200), Cents(50000)},
        b \in {None, Cents(1000)},
        pe \in {Cents(500), Cents(1100), Cents(5000)},
        r \in {None, Cents(30), 0 - Cents(10)} }

RoeCases ==
    { None, 0 - Cents(60), 0 - Cents(50), 0 - Cents(49), Cents(10), Cents(30),
      Cents(99), Cents(100), Cents(150) }

DebtCases == { None, 0 - Cents(10), 0, Cents(50), Cents(300), Cents(1000), Cents(1001) }

RoeEntryCases ==
    { <<>>, <<Entry(Cents(10), Cents(5), 3)>>, <<Entry(Cents(10), 0, 2)>>,
      <<Entry(Cents(10), Cents(5), 1)>>, <<Entry(Cents(50), Cents(1), 2)>> }

DebtEntryCases ==
    { <<>>, <<Entry(Cents(100), Cents(50), 4)>>, <<Entry(Cents(100), 0, 2)>>,
      <<Entry(Cents(100), Cents(50), 1)>> }

\* Family 3: the quality terms.
QualityInputs ==
    { <<Target(Cents(10000), Cents(200), None, None, r, de),
        StatsMap(<<Entry(Cents(1100), Cents(100), 3)>>, <<>>, <<>>, rs, ds)>> :
        r \in RoeCases, de \in DebtCases, rs \in RoeEntryCases, ds \in DebtEntryCases }

\* Scenario B: three peers with P/E 10, 12 and 11 and no other data, a target
\* with EPS 2 and current price 100; the statistics are the aggregator's.
ScenarioB ==
    << Target(Cents(10000), Cents(200), None, None, None, None),
       calculate_peer_statistics(<< Peer("B1", Cents(1000), None, None, None, None),
                                    Peer("B2", Cents(1200), None, None, None, None),
                                    Peer("B3", Cents(1100), None, None, None, None) >>) >>

ValuatorInputs == GatingInputs \cup PriceInputs \cup QualityInputs \cup {ScenarioB}

----------------------------------------------------------------------------
(* Inputs of the blender: components maps *)

Component(price, confidence) ==
    [base_value_price |-> price, quality_adjustment |-> SCALE, value_price |-> price,
     peer_median_multiple |-> Cents(1100), target_metric_value |-> Cents(200),
     confidence |-> confidence, sanity_check_applied |-> FALSE]

ComponentCases ==
    {<<>>} \cup { <<Component(p, c)>> : p \in {Cents(1), Cents(2500), Cents(3333), Cents(1000000)},
                                        c \in {0, 40, 100} }

ComponentMaps ==
    { LET opt == [pe_valuation |-> a, pb_valuation |-> b, ps_valuation |-> c]
      IN  [m \in {k \in DOMAIN opt : opt[k] # <<>>} |-> opt[m][1]] :
        a \in ComponentCases, b \in ComponentCases, c \in ComponentCases }

----------------------------------------------------------------------------
(* ValuePriceCalculationService: the insight generator.  An insight is a   *)
(* tuple: the text of the f-string, then the values formatted into it.     *)

\* m.replace('_', ' ').title()
Title(m) ==
    CASE m = "pe_valuation" -> "Pe Valuation"
      [] m = "pb_valuation" -> "Pb Valuation"
      [] m = "ps_valuation" -> "Ps Valuation"

\* metric.upper()
MetricUpper(metric) ==
    CASE metric = "pe_ratio" -> "PE_RATIO"
      [] metric = "pb_ratio" -> "PB_RATIO"
      [] metric = "ps_ratio" -> "PS_RATIO"

RECURSIVE FlattenSeq(_)
FlattenSeq(ss) == IF ss = <<>> THEN <<>> ELSE Head(ss) \o FlattenSeq(Tail(ss))

\* Mutant: the price classification is appended before the ROE and debt
\* comparisons.
generate_insights_price_early(target, components, current_price, value_price, stats) ==
    LET methods == ComponentKeys(components)
        methods_insight ==
            << <<"Valuation based on {n} method(s): {names}", Len(methods),
                 [i \in 1..Len(methods) |-> Title(methods[i])]>> >>
        sample_adjustment == components[methods[1]].quality_adjustment
        quality_insight ==
            IF sample_adjustment > Cents(105)
            THEN << <<"Quality premium applied: {pct}% (superior ROE/D/E vs peers)",
                      Mul(sample_adjustment - SCALE, 100 * SCALE)>> >>
            ELSE IF sample_adjustment < Cents(95)
            THEN << <<"Quality discount applied: {pct}% (inferior ROE/D/E vs peers)",
                      Mul(SCALE - sample_adjustment, 100 * SCALE)>> >>
            ELSE << <<"Quality metrics in line with peer average">> >>
        \* (the text's leading warning sign is left out)
        sanity_insight ==
            IF \E m \in DOMAIN components : components[m].sanity_check_applied
            THEN << <<"Extreme valuations detected and capped for reasonableness">> >>
            ELSE <<>>
        cleaned == SelectSeq(valuation_methods,
                             LAMBDA metric : /\ metric \in DOMAIN stats
                                             /\ stats[metric].outliers_removed > 0)
        outliers_info ==
            [i \in 1..Len(cleaned) |->
                <<stats[cleaned[i]].outliers_removed, MetricUpper(cleaned[i])>>]
        outliers_insight ==
            IF cleaned # <<>> THEN << <<"Peer data cleaned: {info} removed", outliers_info>> >>
            ELSE <<>>
        roe_insight ==
            IF target.roe # None /\ "roe" \in DOMAIN stats
            THEN LET peer_roe_median == stats["roe"].median
                 IN  IF target.roe > Mul(peer_roe_median, Cents(120))
                     THEN << <<"Strong ROE: {roe}% vs peer median {median}%",
                               target.roe, peer_roe_median>> >>
                     ELSE IF target.roe < Mul(peer_roe_median, Cents(80))
                     THEN << <<"Below-average ROE: {roe}% vs peer median {median}%",
                               target.roe, peer_roe_median>> >>
                     ELSE <<>>
            ELSE <<>>
        de_insight ==
            IF target.debt_to_equity # None /\ "debt_to_equity" \in DOMAIN stats
            THEN LET peer_de_median == stats["debt_to_equity"].median
                 IN  IF target.debt_to_equity < Mul(peer_de_median, Cents(70))
                     THEN << <<"Conservative debt level: {de} vs peer median {median}",
                               target.debt_to_equity, peer_de_median>> >>
                     ELSE IF target.debt_to_equity > Mul(peer_de_median, Cents(150))
                     THEN << <<"High debt level: {de} vs peer median {median}",
                               target.debt_to_equity, peer_de_median>> >>
                     ELSE <<>>
            ELSE <<>>
        price_insight ==
            IF Truthy(current_price) /\ Truthy(value_price)
            THEN LET difference_pct ==
                        Mul(Div(value_price - current_price, current_price), 100 * SCALE)
                 IN  IF difference_pct > 10 * SCALE
                     THEN << <<"Stock appears undervalued by {pct}%", Abs(difference_pct)>> >>
                     ELSE IF difference_pct < 0 - 10 * SCALE
                     THEN << <<"Stock appears overvalued by {pct}%", Abs(difference_pct)>> >>
                     ELSE << <<"Stock appears fairly valued relative to peers">> >>
            ELSE <<>>
        confidence_insights ==
            FlattenSeq([i \in 1..Len(methods) |->
                LET confidence == components[methods[i]].confidence
                IN  IF confidence >= 80
                    THEN << <<"{method} valuation has high confidence ({confidence}%)",
                              Title(methods[i]), confidence>> >>
                    ELSE IF confidence < 60
                    THEN << <<"{method} valuation has lower confidence due to limited peer data",
                              Title(methods[i])>> >>
                    ELSE <<>>])
    IN  IF methods = <<>> THEN << <<"Insufficient data for peer-based valuation">> >>
        ELSE methods_insight \o quality_insight \o sanity_insight \o outliers_insight
             \o price_insight \o roe_insight \o de_insight \o confidence_insights

\* generate_insights(target, components, current_price, value_price, peer_stats)
generate_insights(target, components, current_price, value_price, stats) ==
    LET methods == ComponentKeys(components)
        methods_insight ==
            << <<"Valuation based on {n} method(s): {names}", Len(methods),
                 [i \in 1..Len(methods) |-> Title(methods[i])]>> >>
        sample_adjustment == components[methods[1]].quality_adjustment
        quality_insight ==
            IF sample_adjustment > Cents(105)
            THEN << <<"Quality premium applied: {pct}% (superior ROE/D/E vs peers)",
                      Mul(sample_adjustment - SCALE, 100 * SCALE)>> >>
            ELSE IF sample_adjustment < Cents(95)
            THEN << <<"Quality discount applied: {pct}% (inferior ROE/D/E vs peers)",
                      Mul(SCALE - sample_adjustment, 100 * SCALE)>> >>
            ELSE << <<"Quality metrics in line with peer average">> >>
        \* (the text's leading warning sign is left out)
        sanity_insight ==
            IF \E m \in DOMAIN components : components[m].sanity_check_applied
            THEN << <<"Extreme valuations detected and capped for reasonableness">> >>
            ELSE <<>>
        cleaned == SelectSeq(valuation_methods,
                             LAMBDA metric : /\ metric \in DOMAIN stats
                                             /\ stats[metric].outliers_removed > 0)
        outliers_info ==
            [i \in 1..Len(cleaned) |->
                <<stats[cleaned[i]].outliers_removed, MetricUpper(cleaned[i])>>]
        outliers_insight ==
            IF cleaned # <<>> THEN << <<"Peer data cleaned: {info} removed", outliers_info>> >>
            ELSE <<>>
        roe_insight ==
            IF target.roe # None /\ "roe" \in DOMAIN stats
            THEN LET peer_roe_median == stats["roe"].median
                 IN  IF target.roe > Mul(peer_roe_median, Cents(120))
                     THEN << <<"Strong ROE: {roe}% vs peer median {median}%",
                               target.roe, peer_roe_median>> >>
                     ELSE IF target.roe < Mul(peer_roe_median, Cents(80))
                     THEN << <<"Below-average ROE: {roe}% vs peer median {median}%",
                               target.roe, peer_roe_median>> >>
                     ELSE <<>>
            ELSE <<>>
        de_insight ==
            IF target.debt_to_equity # None /\ "debt_to_equity" \in DOMAIN stats
            THEN LET peer_de_median == stats["debt_to_equity"].median
                 IN  IF target.debt_to_equity < Mul(peer_de_median, Cents(70))
                     THEN << <<"Conservative debt level: {de} vs peer median {median}",
                               target.debt_to_equity, peer_de_median>> >>
                     ELSE IF target.debt_to_equity > Mul(peer_de_median, Cents(150))
                     THEN << <<"High debt level: {de} vs peer median {median}",
                               target.debt_to_equity, peer_de_median>> >>
                     ELSE <<>>
            ELSE <<>>
        price_insight ==
            IF Truthy(current_price) /\ Truthy(value_price)
            THEN LET difference_pct ==
                        Mul(Div(value_price - current_price, current_price), 100 * SCALE)
                 IN  IF difference_pct > 10 * SCALE
                     THEN << <<"Stock appears undervalued by {pct}%", Abs(difference_pct)>> >>
                     ELSE IF difference_pct < 0 - 10 * SCALE
                     THEN << <<"Stock appears overvalued by {pct}%", Abs(difference_pct)>> >>
                     ELSE << <<"Stock appears fairly valued relative to peers">> >>
            ELSE <<>>
        confidence_insights ==
            FlattenSeq([i \in 1..Len(methods) |->
                LET confidence == components[methods[i]].confidence
                IN  IF confidence >= 80
                    THEN << <<"{method} valuation has high confidence ({confidence}%)",
                              Title(methods[i]), confidence>> >>
                    ELSE IF confidence < 60
                    THEN << <<"{method} valuation has lower confidence due to limited peer data",
                              Title(methods[i])>> >>
                    ELSE <<>>])
    IN  IF methods = <<>> THEN << <<"Insufficient data for peer-based valuation">> >>
        ELSE methods_insight \o quality_insight \o sanity_insight \o outliers_insight
             \o roe_insight \o de_insight \o price_insight \o confidence_insights

----------------------------------------------------------------------------
(* CachedStockData and OptimizedStockDataService *)

\* Length of the cache's validity (self.cache_duration), in clock ticks.
CacheTicks == 2

\* Mutant: an entry is still valid when exactly cache_duration has elapsed.
CacheGet_inclusive(c, tk, t) ==
    IF tk \in DOMAIN c
    THEN IF t - c[tk].timestamp <= CacheTicks
         THEN [hit |-> TRUE, data |-> c[tk].data, cache |-> c]
         ELSE [hit |-> FALSE, data |-> NoMetrics,
               cache |-> [k \in DOMAIN c \ {tk} |-> c[k]]]
    ELSE [hit |-> FALSE, data |-> NoMetrics, cache |-> c]

\* CachedStockData.get(ticker) at time t: whether a valid entry was found,
\* its data, and the cache afterwards (an expired entry is deleted).
CacheGet(c, tk, t) ==
    IF tk \in DOMAIN c
    THEN IF t - c[tk].timestamp < CacheTicks
         THEN [hit |-> TRUE, data |-> c[tk].data, cache |-> c]
         ELSE [hit |-> FALSE, data |-> NoMetrics,
               cache |-> [k \in DOMAIN c \ {tk} |-> c[k]]]
    ELSE [hit |-> FALSE, data |-> NoMetrics, cache |-> c]

\* CachedStockData.set(ticker, data) at time t
CacheSet(c, tk, data, t) ==
    [k \in DOMAIN c \cup {tk} |->
        IF k = tk THEN [data |-> data, timestamp |-> t] ELSE c[k]]

\* CachedStockData.clear()
CacheClear(c) == EmptyMap

\* What yf.Ticker(ticker).info can hold (the keys get_essential_metrics reads).
Info(mc, pe, pb, ps, cp, rmp, bv, rps, eps, r, de) ==
    [marketCap |-> mc, trailingPE |-> pe, priceToBook |-> pb,
     priceToSalesTrailing12Months |-> ps, currentPrice |-> cp,
     regularMarketPrice |-> rmp, bookValue |-> bv, revenuePerShare |-> rps,
     trailingEps |-> eps, returnOnEquity |-> r, debtToEquity |-> de]

\* The metrics record get_essential_metrics builds from an info dict.
MetricsFromInfo(tk, info) ==
    EssentialMetrics(Upper(tk), info.marketCap, info.trailingPE, info.priceToBook,
                     info.priceToSalesTrailing12Months,
                     IF Truthy(info.currentPrice) THEN info.currentPrice
                     ELSE info.regularMarketPrice,
                     info.bookValue, info.revenuePerShare, info.trailingEps,
                     info.returnOnEquity, info.debtToEquity)

\* The record returned when the fetch raises: EssentialMetrics(ticker.upper()).
BlankMetrics(tk) ==
    EssentialMetrics(Upper(tk), None, None, None, None, None, None, None, None, None, None)

\* The provider's answers to one info request: these dicts, or "raise".
Quotes ==
    { Info(1, Cents(1000), Cents(200), Cents(300), Cents(10000), None, Cents(1500), Cents(4000),
           Cents(200), Cents(10), Cents(50)),
      Info(1, Cents(3000), Cents(400), Cents(100), None, Cents(2000), Cents(3000), Cents(4000),
           Cents(300), Cents(30), Cents(150)),
      Info(None, Cents(2000), None, None, Cents(5000), None, None, None, Cents(300), None, None),
      Info(1, None, None, None, None, None, None, None, Cents(200), None, None) }

ProviderAnswers == {[raised |-> FALSE, info |-> q] : q \in Quotes}
                       \cup {[raised |-> TRUE, info |-> CHOOSE q \in Quotes : TRUE]}

\* get_essential_metrics(ticker) at time t, the provider answering `answer`
\* if it is asked: the record returned and the cache afterwards.
get_essential_metrics(c, tk, t, answer) ==
    LET cached == CacheGet(c, tk, t)
    IN  IF cached.hit THEN [metrics |-> cached.data, cache |-> cached.cache]
        ELSE IF answer.raised THEN [metrics |-> BlankMetrics(tk), cache |-> cached.cache]
        ELSE [metrics |-> MetricsFromInfo(tk, answer.info),
              cache |-> CacheSet(cached.cache, tk, MetricsFromInfo(tk, answer.info), t)]

\* First pass of get_batch_metrics: the (ticker, record) pairs found in the
\* cache, the tickers to fetch, and the cache afterwards.
RECURSIVE FirstPass(_, _, _)
FirstPass(tickers, c, t) ==
    IF tickers = <<>> THEN [results |-> <<>>, uncached |-> <<>>, cache |-> c]
    ELSE LET cached == CacheGet(c, Head(tickers), t)
             rest == FirstPass(Tail(tickers), cached.cache, t)
         IN  IF cached.hit
             THEN [rest EXCEPT !.results = <<<<Head(tickers), cached.data>>>> \o @]
             ELSE [rest EXCEPT !.uncached = <<Head(tickers)>> \o @]

\* Second pass: get_essential_metrics for each ticker to fetch, in order.
RECURSIVE SecondPass(_, _, _, _)
SecondPass(uncached, c, t, answers) ==
    IF uncached = <<>> THEN [results |-> <<>>, cache |-> c]
    ELSE LET got == get_essential_metrics(c, Head(uncached), t, Head(answers))
             rest == SecondPass(Tail(uncached), got.cache, t, Tail(answers))
         IN  [rest EXCEPT !.results = <<<<Head(uncached), got.metrics>>>> \o @]

\* dict(results)[tk]: the last pair stored for the ticker.
RECURSIVE LastFor(_, _)
LastFor(results, tk) ==
    IF results[Len(results)][1] = tk THEN results[Len(results)][2]
    ELSE LastFor(SubSeq(results, 1, Len(results) - 1), tk)

\* get_batch_metrics(tickers) at time t, the provider's answers to the
\* fetches given in order: the records, in the order of tickers, and the cache.
get_batch_metrics(tickers, c, t, answers) ==
    LET first == FirstPass(tickers, c, t)
        second == SecondPass(first.uncached, first.cache, t, answers)
        results == first.results \o second.results
    IN  [metrics |-> [i \in 1..Len(tickers) |-> LastFor(results, tickers[i])],
         cache |-> second.cache]

\* The number of tickers get_batch_metrics would have to fetch.
Uncached(tickers, c, t) == Len(FirstPass(tickers, c, t).uncached)

\* What fast_info.get('marketCap') can do: raise, or return None, 0 or a
\* positive capitalisation.
FastInfoAnswers == {"raise", "none", "zero", "positive"}

\* validate_ticker_fast(ticker): the verdict and the cache afterwards.
validate_ticker_fast(c, tk, t, answer) ==
    LET cached == CacheGet(c, tk, t)
    IN  IF cached.hit
        THEN [valid |-> cached.data.market_cap # None, cache |-> cached.cache]
        ELSE [valid |-> answer = "positive", cache |-> cached.cache]

----------------------------------------------------------------------------
(* PeerCompanyService *)

\* _load_static_peers(): the mapping is empty.
static_peers_of(ticker_upper) == <<>>

\* Longest AI answer explored.
MaxAIPeers == 2

\* The tickers the AI may name.
AIUniverse == {"MSFT", "GOOG"}

RECURSIVE SeqsUpTo(_, _)
SeqsUpTo(S, n) ==
    IF n = 0 THEN {<<>>}
    ELSE SeqsUpTo(S, n - 1) \cup {Append(q, x) : q \in SeqsUpTo(S, n - 1), x \in S}

\* response.parsed, or the call raising.
AIAnswers == {[raised |-> FALSE, parsed |-> l] : l \in SeqsUpTo(AIUniverse, MaxAIPeers)}
                 \cup {[raised |-> TRUE, parsed |-> <<>>]}

Take(s, n) == SubSeq(s, 1, Min(Len(s), Max(n, 0)))

\* _get_ai_peers(ticker, num_peers) when the call returns `parsed`.
get_ai_peers(tk, n, parsed) ==
    Take(SelectSeq(parsed, LAMBDA p : Upper(p) # Upper(tk)), n)

\* get_peers(ticker, num_peers): the list returned and _peer_cache afterwards.
get_peers(pcache, client, tk, n, answer) ==
    LET ticker_upper == Upper(tk)
        cache_key == <<ticker_upper, n>>
        static_peers == static_peers_of(ticker_upper)
        fallback == IF static_peers # <<>> THEN static_peers ELSE <<"SPY">>
        peers ==
            IF Len(static_peers) >= n THEN Take(static_peers, n)
            ELSE IF client /\ ~answer.raised THEN get_ai_peers(tk, n, answer.parsed)
            ELSE fallback
    IN  IF cache_key \in DOMAIN pcache
        THEN [peers |-> pcache[cache_key], peer_cache |-> pcache]
        ELSE [peers |-> peers,
              peer_cache |-> [k \in DOMAIN pcache \cup {cache_key} |->
                                 IF k = cache_key THEN peers ELSE pcache[k]]]

----------------------------------------------------------------------------
(* State *)

VARIABLES
    pc,                     \* position of the call being followed
    cache,                  \* stock_service.cache.cache: ticker -> (data, timestamp)
    now,                    \* datetime.now(), in clock ticks
    peer_cache,             \* peer_service._peer_cache
    ai_client,              \* whether peer_service.ai_client is set
    ticker,                 \* argument of get_stock_valuation
    num_peers,              \* argument of get_stock_valuation
    peer_tickers,           \* result of get_peers
    target_metrics,         \* the target's EssentialMetrics
    peer_metrics,           \* the list of peer EssentialMetrics
    peer_stats,             \* result of calculate_peer_statistics
    baseline_stats,         \* what the first call on this peer list returned
    reordered,              \* the peer list has been permuted since
    quality_adjustment,     \* result of calculate_quality_adjustment
    sanity,                 \* per emitted component: base, adjusted, final price
    valuation_components,   \* result of calculate_value_price_components
    calculated_value_price, \* the composite price
    method,                 \* the method label
    result,                 \* <<ValuationResult>> once returned, else <<>>
    error,                  \* the exception raised, else <<>>
    calls,                  \* the collaborator calls made by the request, in order
    insights,               \* result of generate_insights
    last_set,               \* history: per ticker, the latest set() since the last clear()
    last_get                \* history: the get() just made, <<>> after any other step

\* The state of the services and of a get_stock_valuation request.
service_vars == <<cache, now, peer_cache, ai_client, ticker, num_peers, peer_tickers,
                  result, error, calls>>

\* The state outside the valuation service's own computations.
\* What is recorded about the use of the cache.
cache_history == <<last_set, last_get>>

outer_vars == <<service_vars, insights, cache_history>>

vars == <<pc, target_metrics, peer_metrics, peer_stats, baseline_stats, reordered,
          quality_adjustment, sanity, valuation_components, calculated_value_price,
          method, service_vars, insights, cache_history>>

\* No request is being served.
NoRequest ==
    /\ cache = EmptyMap
    /\ now = 0
    /\ peer_cache = EmptyMap
    /\ ai_client = FALSE
    /\ ticker = ""
    /\ num_peers = 0
    /\ peer_tickers = <<>>
    /\ result = <<>>
    /\ error = <<>>
    /\ calls = <<>>

\* Nothing computed yet.
NoResults ==
    /\ quality_adjustment = SCALE
    /\ sanity = EmptyMap
    /\ calculated_value_price = None
    /\ method = ""
    /\ insights = <<>>
    /\ last_set = EmptyMap
    /\ last_get = <<>>
    /\ NoRequest

----------------------------------------------------------------------------
(* SpecStats: calculate_peer_statistics on every peer list, and again on *)
(* its permutations                                                       *)

\* Scenario D: five peers with P/E values 10, 10, 10, 10 and 1000.
ScenarioD ==
    [i \in 1..5 |-> Peer("D", IF i < 5 THEN Cents(1000) ELSE Cents(100000),
                          None, None, None, None)]

InitStats ==
    /\ pc = "stats_build"
    /\ target_metrics = NoMetrics
    /\ peer_metrics \in {<<>>, ScenarioD}
    /\ peer_stats = EmptyMap
    /\ baseline_stats = EmptyMap
    /\ reordered = FALSE
    /\ valuation_components = EmptyMap
    /\ NoResults

\* The caller appends one more peer record to the list it will pass.
AddPeer ==
    /\ pc = "stats_build"
    /\ Len(peer_metrics) < MaxPeers
    /\ \E r \in PeerRecords : peer_metrics' = Append(peer_metrics, r)
    /\ UNCHANGED <<pc, target_metrics, peer_stats, baseline_stats, reordered,
                   quality_adjustment, sanity, valuation_components,
                   calculated_value_price, method, outer_vars>>

\* calculate_peer_statistics(peer_metrics)
Aggregate ==
    /\ pc = "stats_build"
    /\ pc' = "stats_done"
    /\ peer_stats' = calculate_peer_statistics(peer_metrics)
    /\ baseline_stats' = peer_stats'
    /\ UNCHANGED <<target_metrics, peer_metrics, reordered, quality_adjustment, sanity,
                   valuation_components, calculated_value_price, method, outer_vars>>

Swap(s, i, j) == [s EXCEPT ![i] = s[j], ![j] = s[i]]

\* calculate_peer_statistics on the same records in another order
Reaggregate ==
    /\ pc = "stats_done"
    /\ \E i \in 1..Len(peer_metrics), j \in 1..Len(peer_metrics) :
          /\ i < j
          /\ peer_metrics[i] # peer_metrics[j]
          /\ peer_metrics' = Swap(peer_metrics, i, j)
    /\ peer_stats' = calculate_peer_statistics(peer_metrics')
    /\ reordered' = TRUE
    /\ UNCHANGED <<pc, target_metrics, baseline_stats, quality_adjustment, sanity,
                   valuation_components, calculated_value_price, method, outer_vars>>

NextStats == AddPeer \/ Aggregate \/ Reaggregate

SpecStats == InitStats /\ [][NextStats]_vars

----------------------------------------------------------------------------
(* SpecValuator: calculate_value_price_components, then the blender, on   *)
(* every target record and statistics map of ValuatorInputs               *)

InitValuator ==
    /\ pc = "valuate"
    /\ \E input \in ValuatorInputs :
          /\ target_metrics = input[1]
          /\ peer_stats = input[2]
    /\ peer_metrics = <<>>
    /\ baseline_stats = EmptyMap
    /\ reordered = FALSE
    /\ valuation_components = EmptyMap
    /\ NoResults

\* calculate_value_price_components(target_metrics, peer_stats)
Valuate ==
    /\ pc = "valuate"
    /\ pc' = "blend"
    /\ quality_adjustment' = calculate_quality_adjustment(target_metrics, peer_stats)
    /\ sanity' = sanity_stage(target_metrics, peer_stats)
    /\ valuation_components' = calculate_value_price_components(target_metrics, peer_stats)
    /\ UNCHANGED <<target_metrics, peer_metrics, peer_stats, baseline_stats, reordered,
                   calculated_value_price, method, outer_vars>>

\* calculate_composite_value_price(valuation_components)
Blend ==
    /\ pc = "blend"
    /\ pc' = "blended"
    /\ calculated_value_price' = calculate_composite_value_price(valuation_components)[1]
    /\ method' = calculate_composite_value_price(valuation_components)[2]
    /\ UNCHANGED <<target_metrics, peer_metrics, peer_stats, baseline_stats, reordered,
                   quality_adjustment, sanity, valuation_components, outer_vars>>

NextValuator == Valuate \/ Blend

SpecValuator == InitValuator /\ [][NextValuator]_vars

----------------------------------------------------------------------------
(* SpecBlender: calculate_composite_value_price on every components map   *)
(* of ComponentMaps                                                        *)

InitBlender ==
    /\ pc = "blend"
    /\ valuation_components \in ComponentMaps
    /\ target_metrics = NoMetrics
    /\ peer_metrics = <<>>
    /\ peer_stats = EmptyMap
    /\ baseline_stats = EmptyMap
    /\ reordered = FALSE
    /\ NoResults

NextBlender == Blend

SpecBlender == InitBlender /\ [][NextBlender]_vars

----------------------------------------------------------------------------
(* SpecInsights: the valuator, the blender and then generate_insights, on  *)
(* target records and statistics maps that open and close each rule's gate *)

\* A statistics entry that records removed outliers.
CleanedEntry(median, std, count, removed) ==
    [Entry(median, std, count) EXCEPT !.outliers_removed = removed]

InsightInputs ==
    { <<Target(cp, e, b, None, r, de),
        StatsMap(<<CleanedEntry(Cents(1100), Cents(100), c, o)>>,
                 <<CleanedEntry(Cents(100), 0, 4, 2 * o)>>, <<>>, rs, ds)>> :
        cp \in {None, Cents(10000), Cents(2100), Cents(1500)},
        e \in {None, Cents(200)},
        b \in {None, Cents(1000)},
        r \in {None, Cents(30), Cents(10), Cents(5), 0, 0 - Cents(10)},
        de \in {None, Cents(50), Cents(100), Cents(300)},
        c \in {2, 3, 5},
        o \in {0, 1},
        rs \in {<<>>, <<Entry(Cents(10), Cents(5), 3)>>, <<Entry(0, Cents(5), 3)>>,
                <<Entry(0 - Cents(10), Cents(5), 3)>>},
        ds \in {<<>>, <<Entry(Cents(100), Cents(50), 4)>>} }

InitInsights ==
    /\ pc = "valuate"
    /\ \E input \in InsightInputs :
          /\ target_metrics = input[1]
          /\ peer_stats = input[2]
    /\ peer_metrics = <<>>
    /\ baseline_stats = EmptyMap
    /\ reordered = FALSE
    /\ valuation_components = EmptyMap
    /\ NoResults

\* generate_insights(target_metrics, valuation_components, current_price,
\*                   calculated_value_price, peer_stats)
Explain ==
    /\ pc = "blended"
    /\ pc' = "explained"
    /\ insights' = generate_insights(target_metrics, valuation_components,
                                     target_metrics.current_price, calculated_value_price,
                                     peer_stats)
    /\ UNCHANGED <<target_metrics, peer_metrics, peer_stats, baseline_stats, reordered,
                   quality_adjustment, sanity, valuation_components,
                   calculated_value_price, method, service_vars, cache_history>>

NextInsights == Valuate \/ Blend \/ Explain

SpecInsights == InitInsights /\ [][NextInsights]_vars

----------------------------------------------------------------------------
(* SpecCache: CachedStockData under any sequence of set, get, clear and    *)
(* the passing of time                                                     *)

\* The clock is followed up to this time.
MaxTime == 4

CacheTickers == {"GOOG", "SPY"}

\* The records stored: two different quotes per ticker.
CacheRecords(tk) ==
    { MetricsFromInfo(tk, q) : q \in {q \in Quotes : q.marketCap # None /\ q.trailingPE # None} }

non_cache_vars == <<pc, target_metrics, peer_metrics, peer_stats, baseline_stats, reordered,
                    quality_adjustment, sanity, valuation_components,
                    calculated_value_price, method, insights, peer_cache, ai_client,
                    ticker, num_peers, peer_tickers, result, error, calls>>

InitCache ==
    /\ pc = "cache"
    /\ target_metrics = NoMetrics
    /\ peer_metrics = <<>>
    /\ peer_stats = EmptyMap
    /\ baseline_stats = EmptyMap
    /\ reordered = FALSE
    /\ valuation_components = EmptyMap
    /\ NoResults

\* cache.set(tk, data)
SetEntry ==
    /\ \E tk \in CacheTickers : \E data \in CacheRecords(tk) :
          /\ cache' = CacheSet(cache, tk, data, now)
          /\ last_set' = [k \in DOMAIN last_set \cup {tk} |->
                             IF k = tk THEN [data |-> data, timestamp |-> now]
                             ELSE last_set[k]]
    /\ last_get' = <<>>
    /\ UNCHANGED <<now, non_cache_vars>>

\* cache.get(tk)
GetEntry ==
    /\ \E tk \in CacheTickers :
          LET got == CacheGet(cache, tk, now)
          IN  /\ cache' = got.cache
              /\ last_get' = <<[ticker |-> tk,
                                returned |-> IF got.hit THEN <<got.data>> ELSE <<>>,
                                before |-> cache,
                                after |-> got.cache]>>
    /\ UNCHANGED <<now, last_set, non_cache_vars>>

\* cache.clear()
ClearEntries ==
    /\ cache' = CacheClear(cache)
    /\ last_set' = EmptyMap
    /\ last_get' = <<>>
    /\ UNCHANGED <<now, non_cache_vars>>

\* datetime.now() moves on.
Tick ==
    /\ now < MaxTime
    /\ now' = now + 1
    /\ last_get' = <<>>
    /\ UNCHANGED <<cache, last_set, non_cache_vars>>

NextCache == SetEntry \/ GetEntry \/ ClearEntries \/ Tick

SpecCache == InitCache /\ [][NextCache]_vars

----------------------------------------------------------------------------
(* Spec: StockValuationService.get_stock_valuation(ticker, num_peers), one *)
(* request followed through its collaborator calls.  The service may have  *)
(* served earlier requests: its cache can hold an entry, fresh or expired. *)

RequestTickers == {"GOOG", "goog", "SPY"}

NumPeersCases == {0, 1, 6}

\* The caches earlier requests can have left behind at time t: nothing, or an
\* entry for some ticker stored one tick ago (still valid) or at time 0.
CacheStates(t) ==
    {EmptyMap} \cup
    { CacheSet(EmptyMap, tk, MetricsFromInfo(tk, q), ts) :
        tk \in RequestTickers \cup {"MSFT"}, q \in Quotes, ts \in {0, t - 1} }

Init ==
    /\ pc = "validate"
    /\ now = CacheTicks
    /\ cache \in CacheStates(CacheTicks)
    /\ peer_cache = EmptyMap
    /\ ai_client \in BOOLEAN
    /\ ticker \in RequestTickers
    /\ num_peers \in NumPeersCases
    /\ peer_tickers = <<>>
    /\ target_metrics = NoMetrics
    /\ peer_metrics = <<>>
    /\ peer_stats = EmptyMap
    /\ baseline_stats = EmptyMap
    /\ reordered = FALSE
    /\ quality_adjustment = SCALE
    /\ sanity = EmptyMap
    /\ valuation_components = EmptyMap
    /\ calculated_value_price = None
    /\ method = ""
    /\ result = <<>>
    /\ error = <<>>
    /\ calls = <<>>
    /\ insights = <<>>
    /\ last_set = EmptyMap
    /\ last_get = <<>>

request_locals == <<target_metrics, peer_metrics, peer_stats, baseline_stats, reordered,
                    quality_adjustment, sanity, valuation_components,
                    calculated_value_price, method, insights, cache_history>>

\* Mutant: the verdict of the validation is ignored.
ValidateTicker_ignored ==
    /\ pc = "validate"
    /\ \E answer \in FastInfoAnswers :
          LET verdict == validate_ticker_fast(cache, ticker, now, answer)
          IN  /\ cache' = verdict.cache
              /\ calls' = Append(calls, <<"validate_ticker_fast", verdict.valid>>)
              /\ pc' = "get_peers"
              /\ error' = <<>>
    /\ UNCHANGED <<now, peer_cache, ai_client, ticker, num_peers, peer_tickers, result,
                   request_locals>>

\* if not self.stock_service.validate_ticker_fast(ticker): raise ValueError(...)
ValidateTicker ==
    /\ pc = "validate"
    /\ \E answer \in FastInfoAnswers :
          LET verdict == validate_ticker_fast(cache, ticker, now, answer)
          IN  /\ cache' = verdict.cache
              /\ calls' = Append(calls, <<"validate_ticker_fast", verdict.valid>>)
              /\ IF verdict.valid
                 THEN pc' = "get_peers" /\ error' = <<>>
                 ELSE pc' = "raised" /\ error' = <<"ValueError", "Invalid ticker: ", ticker>>
    /\ UNCHANGED <<now, peer_cache, ai_client, ticker, num_peers, peer_tickers, result,
                   request_locals>>

\* peer_tickers = self.peer_service.get_peers(ticker, num_peers)
GetPeers ==
    /\ pc = "get_peers"
    /\ \E answer \in AIAnswers :
          LET got == get_peers(peer_cache, ai_client, ticker, num_peers, answer)
          IN  /\ peer_tickers' = got.peers
              /\ peer_cache' = got.peer_cache
    /\ calls' = Append(calls, <<"get_peers">>)
    /\ pc' = "get_batch_metrics"
    /\ UNCHANGED <<cache, now, ai_client, ticker, num_peers, result, error, request_locals>>

\* all_metrics = self.stock_service.get_batch_metrics([ticker] + peer_tickers),
\* then the separation of the target from the peers with a market cap.
GetBatchMetrics ==
    /\ pc = "get_batch_metrics"
    /\ LET all_tickers == <<ticker>> \o peer_tickers
       IN  \E answers \in [1..Uncached(all_tickers, cache, now) -> ProviderAnswers] :
              LET batch == get_batch_metrics(all_tickers, cache, now, answers)
                  all_metrics == batch.metrics
              IN  /\ cache' = batch.cache
                  /\ IF all_metrics = <<>>
                     THEN /\ pc' = "raised"
                          /\ error' = <<"ValueError", "Could not fetch data for ", ticker>>
                          /\ UNCHANGED <<target_metrics, peer_metrics>>
                     ELSE /\ pc' = "evaluate"
                          /\ error' = <<>>
                          /\ target_metrics' = all_metrics[1]
                          /\ peer_metrics' = SelectSeq(Tail(all_metrics),
                                                       LAMBDA m : m.market_cap # None)
    /\ calls' = Append(calls, <<"get_batch_metrics">>)
    /\ UNCHANGED <<now, peer_cache, ai_client, ticker, num_peers, peer_tickers, result,
                   peer_stats, baseline_stats, reordered, quality_adjustment, sanity,
                   valuation_components, calculated_value_price, method, insights,
                   cache_history>>

\* Mutant: the upper clamp of the final guard is left out.
final_guard_no_upper(current_price, value_price) ==
    Max(Mul(current_price - current_price, (3 * SCALE) \div 10), value_price)

\* calculated_value_price = min((current_price + current_price) * 0.3, ...)
\* calculated_value_price = max((current_price - current_price) * 0.3, ...)
\* Mutant: the band of 30% around the current price.
final_guard_band(current_price, value_price) ==
    Max(Mul(current_price, (7 * SCALE) \div 10),
        Min(Mul(current_price, (13 * SCALE) \div 10), value_price))

final_guard(current_price, value_price) ==
    Max(Mul(current_price - current_price, (3 * SCALE) \div 10),
        Min(Mul(current_price + current_price, (3 * SCALE) \div 10), value_price))

\* The ValuationResult constructed at the end of get_stock_valuation.
ValuationResult(tk, date, target, peers, stats, components, price, label) ==
    LET current_price == target.current_price
        differs == Truthy(current_price) /\ Truthy(price)
        price_difference == Round2(price - current_price)
    IN  [ticker |-> Upper(tk),
         analysis_date |-> date,
         current_price |-> current_price,
         calculated_value_price |-> price,
         price_difference |-> IF differs THEN price_difference ELSE None,
         price_difference_percent |->
             IF differs
             THEN Round2(Mul(Div(price_difference, current_price), 100 * SCALE))
             ELSE None,
         valuation_method |-> label,
         target_metrics |-> target,
         peer_tickers |-> [i \in 1..Len(peers) |-> peers[i].ticker],
         peer_count |-> Len(peers),
         peer_statistics |-> stats,
         valuation_components |-> components,
         key_insights |-> generate_insights(target, components, current_price, price, stats)]

\* The rest of get_stock_valuation: statistics, components, composite, final
\* guard, differences, insights, result.  min() and "+" raise TypeError on None.
Evaluate ==
    /\ pc = "evaluate"
    /\ LET stats == calculate_peer_statistics(peer_metrics)
           components == calculate_value_price_components(target_metrics, stats)
           composite == calculate_composite_value_price(components)
           current_price == target_metrics.current_price
       IN  /\ peer_stats' = stats
           /\ quality_adjustment' = calculate_quality_adjustment(target_metrics, stats)
           /\ sanity' = sanity_stage(target_metrics, stats)
           /\ valuation_components' = components
           /\ method' = composite[2]
           /\ IF current_price = None \/ composite[1] = None
              THEN /\ pc' = "raised"
                   /\ error' = <<"TypeError", "unsupported operand type: NoneType", ticker>>
                   /\ calculated_value_price' = composite[1]
                   /\ result' = <<>>
                   /\ insights' = <<>>
              ELSE /\ pc' = "returned"
                   /\ error' = <<>>
                   /\ calculated_value_price' = final_guard(current_price, composite[1])
                   /\ result' = <<ValuationResult(ticker, now, target_metrics, peer_metrics,
                                                  stats, components,
                                                  calculated_value_price', composite[2])>>
                   /\ insights' = result'[1].key_insights
    /\ UNCHANGED <<cache, now, peer_cache, ai_client, ticker, num_peers, peer_tickers, calls,
                   target_metrics, peer_metrics, baseline_stats, reordered, cache_history>>

Next == ValidateTicker \/ GetPeers \/ GetBatchMetrics \/ Evaluate

Spec == Init /\ [][Next]_vars

----------------------------------------------------------------------------
(* Claims about the sanity-check stage (SpecValuator) *)

Valuated == pc \in {"blend", "blended"}

KnownPositive(price) == price # None /\ price > 0

WithinRelativeBand(final, current) ==
    /\ final >= (current + 3) \div 4
    /\ final <= 4 * current

\* C1: every emitted component's final price, as returned by the sanity-check
\* stage, lies within [0.01, 10000], whatever the current price.
C1_FinalPriceWithinAbsoluteRange ==
    Valuated =>
        \A m \in DOMAIN sanity :
            /\ sanity[m].final >= Cents(1)
            /\ sanity[m].final <= 10000 * SCALE

\* C2 (as claimed): with a present, positive current price, every emitted
\* component's final price lies within [0.25 x current, 4 x current].
C2_FinalPriceWithinRelativeBand ==
    Valuated /\ KnownPositive(target_metrics.current_price) =>
        \A m \in DOMAIN sanity :
            WithinRelativeBand(sanity[m].final, target_metrics.current_price)

\* The current prices whose band [0.25 x current, 4 x current] meets the
\* absolute range [0.01, 10000]: 0.0025 <= current <= 40000.
BandMeetsAbsoluteRange(current) ==
    /\ 4 * current >= Cents(1)
    /\ current <= 40000 * SCALE

\* C2 (amended): with a current price between 0.0025 and 40000, every emitted
\* component's final price lies within [0.25 x current, 4 x current].
C2_FinalPriceWithinRelativeBand_Amended ==
    /\ Valuated
    /\ KnownPositive(target_metrics.current_price)
    /\ BandMeetsAbsoluteRange(target_metrics.current_price)
    => \A m \in DOMAIN sanity :
           WithinRelativeBand(sanity[m].final, target_metrics.current_price)

\* A component whose adjusted price was below the band and was raised to
\* 0.25 x current, and one cut down to 4 x current, in the same valuation.
C2_Witness ==
    /\ Valuated
    /\ KnownPositive(target_metrics.current_price)
    /\ BandMeetsAbsoluteRange(target_metrics.current_price)
    /\ \E m \in DOMAIN sanity :
          /\ sanity[m].adjusted < sanity[m].final
          /\ 4 * sanity[m].final = target_metrics.current_price
    /\ \E m \in DOMAIN sanity :
          /\ sanity[m].adjusted > sanity[m].final
          /\ sanity[m].final = 4 * target_metrics.current_price

----------------------------------------------------------------------------
(* Claims about the quality multiplier (SpecValuator) *)

\* The applicability conditions of the two terms as the design states them.
RoeTermApplies ==
    /\ target_metrics.roe # None
    /\ target_metrics.roe >= 0 - Cents(50)
    /\ target_metrics.roe <= Cents(100)
    /\ "roe" \in DOMAIN peer_stats
    /\ peer_stats["roe"].count >= 2
    /\ peer_stats["roe"].std # 0

DebtTermApplies ==
    /\ target_metrics.debt_to_equity # None
    /\ target_metrics.debt_to_equity >= 0
    /\ target_metrics.debt_to_equity <= Cents(1000)
    /\ "debt_to_equity" \in DOMAIN peer_stats
    /\ peer_stats["debt_to_equity"].count >= 2
    /\ peer_stats["debt_to_equity"].std # 0

\* C6: the quality multiplier lies within [0.80, 1.20], and is exactly 1.0
\* when neither the ROE term nor the debt-to-equity term applies.
C6_QualityMultiplierBounded ==
    Valuated =>
        /\ quality_adjustment >= Cents(80)
        /\ quality_adjustment <= Cents(120)
        /\ (~RoeTermApplies /\ ~DebtTermApplies => quality_adjustment = SCALE)

\* Both terms apply and move the multiplier off 1.0.
C6_Witness ==
    /\ Valuated
    /\ RoeTermApplies
    /\ DebtTermApplies
    /\ quality_adjustment > SCALE

----------------------------------------------------------------------------
(* Claims about which methods fire (SpecValuator) *)

\* The firing condition of method m as the design states it.
ShouldFire(m) ==
    LET per_share == target_metrics[PerShareField(m)]
        multiple == MultipleOf(m)
        low == CASE m = "pe_valuation" -> Cents(500)
                 [] m = "pb_valuation" -> Cents(10)
                 [] m = "ps_valuation" -> Cents(10)
        high == CASE m = "pe_valuation" -> Cents(10000)
                  [] m = "pb_valuation" -> Cents(2000)
                  [] m = "ps_valuation" -> Cents(3000)
    IN  /\ per_share # None
        /\ per_share > 0
        /\ multiple \in DOMAIN peer_stats
        /\ peer_stats[multiple].count >= 2
        /\ peer_stats[multiple].median >= low
        /\ peer_stats[multiple].median <= high

\* C10: each method's component is emitted if and only if its per-share
\* figure is present and positive, its multiple has peer statistics with
\* count >= 2, and the peer median lies in the method's band, end points
\* included; the condition of one method does not involve the other two.
C10_MethodFiresIffConditions ==
    Valuated =>
        \A m \in Range(MethodNames) :
            (m \in DOMAIN valuation_components) <=> ShouldFire(m)

\* Only P/B fires, on a median at the upper end of its band, while P/E is
\* stopped by a median just below its band and P/S by a single-sample entry.
C10_Witness ==
    /\ Valuated
    /\ DOMAIN valuation_components = {"pb_valuation"}
    /\ peer_stats["pb_ratio"].median = Cents(2000)
    /\ Truthy(target_metrics.earnings_per_share)
    /\ "pe_ratio" \in DOMAIN peer_stats
    /\ peer_stats["pe_ratio"].median = Cents(499)
    /\ Truthy(target_metrics.revenue_per_share)
    /\ "ps_ratio" \in DOMAIN peer_stats
    /\ peer_stats["ps_ratio"].count = 1

----------------------------------------------------------------------------
(* Claims about the peer statistics aggregator (SpecStats) *)

Aggregated == pc = "stats_done"

TrackedMetrics == {"pe_ratio", "pb_ratio", "ps_ratio", "roe", "debt_to_equity"}

\* The peers (by position) that report metric col.
Reporting(col) == {i \in 1..Len(peer_metrics) : peer_metrics[i][col] # None}

\* The metric's absolute cap as the design states it.
WithinAbsoluteCap(col, v) ==
    CASE col = "pe_ratio" -> v <= Cents(10000)
      [] col = "pb_ratio" -> v <= Cents(2000)
      [] col = "ps_ratio" -> v <= Cents(3000)
      [] col = "roe" -> v >= 0 - Cents(50) /\ v <= Cents(100)
      [] col = "debt_to_equity" -> v <= Cents(1000)

\* The peers whose value survives filtering: all of them when at most two
\* report the metric, otherwise those inside the fence
\* [Q1 - 2 IQR, Q3 + 2 IQR] and inside the absolute cap.
Surviving(col) ==
    IF Cardinality(Reporting(col)) <= 2 THEN Reporting(col)
    ELSE LET values == DropNa(peer_metrics, col)
             q1 == Quantile4(values, 1)
             q3 == Quantile4(values, 3)
         IN  { i \in Reporting(col) :
                 /\ 4 * peer_metrics[i][col] >= q1 - 2 * (q3 - q1)
                 /\ 4 * peer_metrics[i][col] <= q3 + 2 * (q3 - q1)
                 /\ WithinAbsoluteCap(col, peer_metrics[i][col]) }

\* C7: an entry exists exactly for the metrics with at least two surviving
\* values; its count is at least 2 and is the number of surviving values,
\* and count + outliers_removed is the number of peers reporting the metric.
C7_CountsMatchSurvivingValues ==
    Aggregated =>
        \A col \in TrackedMetrics :
            /\ (col \in DOMAIN peer_stats) <=> (Cardinality(Surviving(col)) >= 2)
            /\ col \in DOMAIN peer_stats =>
                  /\ peer_stats[col].count >= 2
                  /\ peer_stats[col].count = Cardinality(Surviving(col))
                  /\ peer_stats[col].count + peer_stats[col].outliers_removed
                        = Cardinality(Reporting(col))

\* One metric keeps its entry after values were filtered out, while another,
\* reported by three peers or more, is left with fewer than two values and
\* has no entry.
C7_Witness ==
    /\ Aggregated
    /\ \E col \in DOMAIN peer_stats : peer_stats[col].outliers_removed > 0
    /\ \E col \in TrackedMetrics :
          /\ Cardinality(Reporting(col)) >= 3
          /\ col \notin DOMAIN peer_stats

----------------------------------------------------------------------------
(* Claims about the composite blender (SpecBlender) *)

Blended == pc = "blended"

Fired == DOMAIN valuation_components

RECURSIVE SumOver(_, _)
SumOver(f, S) ==
    IF S = {} THEN 0
    ELSE LET x == CHOOSE y \in S : TRUE IN f[x] + SumOver(f, S \ {x})

TotalConfidence == SumOver([m \in Fired |-> valuation_components[m].confidence], Fired)

\* sum(price x confidence) / sum(confidence), prices counted in cents.
ConfidenceWeightedPrice ==
    LET weighted == SumOver([m \in Fired |-> (valuation_components[m].value_price \div 100)
                                              * valuation_components[m].confidence], Fired)
    IN  (weighted \div TotalConfidence) * 100
          + ((weighted % TotalConfidence) * 100) \div TotalConfidence

PlainMeanPrice ==
    SumOver([m \in Fired |-> valuation_components[m].value_price], Fired)
        \div Cardinality(Fired)

SingleResult ==
    LET m == CHOOSE k \in Fired : TRUE
    IN  /\ calculated_value_price = valuation_components[m].value_price
        /\ method = CASE m = "pe_valuation" -> "PE_VALUATION"
                      [] m = "pb_valuation" -> "PB_VALUATION"
                      [] m = "ps_valuation" -> "PS_VALUATION"

\* C9 (as claimed): no component gives (no price, INSUFFICIENT_DATA); one
\* component gives its final price and its name in upper case; two or three
\* components give the confidence-weighted mean of the final prices rounded
\* to 2 decimals, and COMPOSITE.
C9_BlenderMatchesReference ==
    Blended =>
        CASE Cardinality(Fired) = 0 ->
                calculated_value_price = None /\ method = "INSUFFICIENT_DATA"
          [] Cardinality(Fired) = 1 -> SingleResult
          [] OTHER ->
                /\ method = "COMPOSITE"
                /\ TotalConfidence # 0
                /\ calculated_value_price = Round2(ConfidenceWeightedPrice)

\* C9 (amended): as claimed when the confidences of two or three components
\* sum to more than zero; when they sum to zero the price is the plain mean
\* of the final prices rounded to 2 decimals, and the method is COMPOSITE.
C9_BlenderMatchesReference_Amended ==
    Blended =>
        CASE Cardinality(Fired) = 0 ->
                calculated_value_price = None /\ method = "INSUFFICIENT_DATA"
          [] Cardinality(Fired) = 1 -> SingleResult
          [] OTHER ->
                /\ method = "COMPOSITE"
                /\ calculated_value_price =
                      IF TotalConfidence > 0 THEN Round2(ConfidenceWeightedPrice)
                      ELSE Round2(PlainMeanPrice)

\* Three components of unequal confidence, blended to a price that is not
\* their plain mean.
C9_Witness ==
    /\ Blended
    /\ Cardinality(Fired) = 3
    /\ \E a \in Fired, b \in Fired :
          valuation_components[a].confidence # valuation_components[b].confidence
    /\ TotalConfidence > 0
    /\ calculated_value_price # Round2(PlainMeanPrice)
    /\ method = "COMPOSITE"

----------------------------------------------------------------------------
(* Claims about get_stock_valuation (Spec) *)

Finished == pc \in {"returned", "raised"}

PassedValidation == calls # <<>> /\ calls[1] = <<"validate_ticker_fast", TRUE>>

FailedValidation == calls # <<>> /\ calls[1] = <<"validate_ticker_fast", FALSE>>

Evaluated == Finished /\ Len(calls) = 3

\* C3: when no valuation method fires, the request still returns a result:
\* its value price is None, its method label is INSUFFICIENT_DATA and its
\* insights are the single insufficient-data message.
C3_InsufficientDataResult ==
    (Evaluated /\ valuation_components = EmptyMap) =>
        /\ pc = "returned"
        /\ result # <<>>
        /\ result[1].calculated_value_price = None
        /\ result[1].valuation_method = "INSUFFICIENT_DATA"
        /\ result[1].key_insights = << <<"Insufficient data for peer-based valuation">> >>

\* C4: a returned value price, for a known non-negative current price, lies
\* between zero and twice the current price.
C4_ValuePriceWithinFinalGuard ==
    (pc = "returned" /\ result[1].calculated_value_price # None
                     /\ result[1].current_price # None
                     /\ result[1].current_price >= 0) =>
        /\ result[1].calculated_value_price >= 0
        /\ result[1].calculated_value_price <= 2 * result[1].current_price

\* A request returns although its blended price was above twice the current price.
C4_Witness ==
    /\ pc = "returned"
    /\ result[1].current_price > 0
    /\ calculate_composite_value_price(valuation_components)[1] > 2 * result[1].current_price
    /\ result[1].calculated_value_price > 0

\* C5: a request whose ticker fails validation is rejected with an error
\* naming the ticker, and no peer lookup or metrics fetch is performed for it.
C5_InvalidTickerRejected ==
    FailedValidation =>
        /\ pc = "raised"
        /\ error = <<"ValueError", "Invalid ticker: ", ticker>>
        /\ calls = << <<"validate_ticker_fast", FALSE>> >>
        /\ peer_tickers = <<>>
        /\ peer_cache = EmptyMap
        /\ result = <<>>

\* A request is rejected for a ticker the provider does not know.
C5_Witness ==
    /\ FailedValidation
    /\ pc = "raised"
    /\ error = <<"ValueError", "Invalid ticker: ", ticker>>

----------------------------------------------------------------------------
(* Scenario A (Spec) *)

\* The target of the request has earnings per share only.
EarningsOnlyTarget ==
    /\ Truthy(target_metrics.earnings_per_share)
    /\ target_metrics.earnings_per_share > 0
    /\ target_metrics.book_value_per_share = None
    /\ target_metrics.revenue_per_share = None

OnlyPEComponent ==
    /\ DOMAIN valuation_components = {"pe_valuation"}
    /\ method = "PE_VALUATION"

\* C11: with a single peer record and a target that has positive EPS but no
\* book value or revenue per share, the P/E method fires, exactly one
\* component is produced and the method label is PE_VALUATION.
C11_SinglePeerScenario ==
    (Evaluated /\ Len(peer_metrics) = 1 /\ EarningsOnlyTarget) => OnlyPEComponent

\* C11 amended: such a target gets exactly the P/E component, labelled
\* PE_VALUATION, when the peers' P/E statistics exist (two or more values) with
\* a median within [5, 100]; with a single peer record there are no peer
\* statistics, no method fires and the label is INSUFFICIENT_DATA.
C11_SinglePeerScenario_Amended ==
    (Evaluated /\ EarningsOnlyTarget) =>
        /\ Len(peer_metrics) = 1 =>
              /\ peer_stats = EmptyMap
              /\ valuation_components = EmptyMap
              /\ method = "INSUFFICIENT_DATA"
        /\ ( /\ "pe_ratio" \in DOMAIN peer_stats
             /\ peer_stats["pe_ratio"].median >= 5 * SCALE
             /\ peer_stats["pe_ratio"].median <= 100 * SCALE ) =>
              /\ Len(peer_metrics) >= 2
              /\ OnlyPEComponent

\* A request returns with the P/E component alone, computed from two peers.
C11_Witness ==
    /\ pc = "returned"
    /\ EarningsOnlyTarget
    /\ Len(peer_metrics) = 2
    /\ OnlyPEComponent
    /\ result[1].valuation_method = "PE_VALUATION"

----------------------------------------------------------------------------
(* Absent current price (Spec) *)

\* C12: a request that passed validation and whose target record has no
\* current price returns a result, without raising, in which current_price,
\* price_difference and price_difference_percent are absent.
C12_AbsentPriceStillReturns ==
    (Evaluated /\ target_metrics.current_price = None) =>
        /\ pc = "returned"
        /\ result # <<>>
        /\ result[1].current_price = None
        /\ result[1].price_difference = None
        /\ result[1].price_difference_percent = None

----------------------------------------------------------------------------
(* The ROE term (SpecValuator) *)

\* clamp((target ROE - peer median) / peer std * 0.05, -0.15, +0.15)
ExpectedRoeTerm ==
    Clamp(Mul(Div(target_metrics.roe - peer_stats["roe"].median, peer_stats["roe"].std),
              Cents(5)),
          0 - Cents(15), Cents(15))

\* C13: the ROE term applies exactly when the target ROE is present and within
\* the closed interval [-0.5, 1.0] and the peer ROE statistics exist with
\* count >= 2 and nonzero standard deviation; when it applies its value is
\* clamp((target ROE - peer median) / peer std * 0.05, -0.15, +0.15).
C13_RoeTermOnClosedInterval ==
    Valuated =>
        LET term == roe_adjustment(target_metrics, peer_stats)
        IN  /\ RoeTermApplies <=> term # <<>>
            /\ RoeTermApplies => term = <<ExpectedRoeTerm>>

----------------------------------------------------------------------------
(* The values the aggregator uses (SpecStats) *)

\* The surviving values of a metric, in peer order.
UsedValues(col) ==
    LET kept == SelectSeq([i \in 1..Len(peer_metrics) |-> i], LAMBDA i : i \in Surviving(col))
    IN  [k \in 1..Len(kept) |-> peer_metrics[kept[k]][col]]

\* The peers report the P/E values of Scenario D: four times 10, once 1000.
ScenarioDValues ==
    /\ Cardinality(Reporting("pe_ratio")) = 5
    /\ Cardinality({i \in Reporting("pe_ratio") : peer_metrics[i].pe_ratio = Cents(1000)}) = 4
    /\ Cardinality({i \in Reporting("pe_ratio") : peer_metrics[i].pe_ratio = Cents(100000)}) = 1

\* C14: every entry is computed from exactly the values that survive: both
\* values when two are present (outliers_removed = 0), and when three or more
\* are present those within [Q1 - 2 IQR, Q3 + 2 IQR] that also satisfy the
\* metric's absolute cap; P/E values 10, 10, 10, 10, 1000 give
\* outliers_removed = 1, count = 4 and median = 10.
C14_StatisticsOverSurvivingValues ==
    Aggregated =>
        /\ \A col \in DOMAIN peer_stats :
              LET used == UsedValues(col)
              IN  /\ peer_stats[col].count = Len(used)
                  /\ peer_stats[col].median = Median(used)
                  /\ peer_stats[col].mean = Mean(used)
                  /\ peer_stats[col]["25th_percentile"] = Quantile(used, 1)
                  /\ peer_stats[col]["75th_percentile"] = Quantile(used, 3)
                  /\ peer_stats[col].outliers_removed
                        = Cardinality(Reporting(col)) - Len(used)
                  /\ Cardinality(Reporting(col)) = 2 =>
                        /\ peer_stats[col].count = 2
                        /\ peer_stats[col].outliers_removed = 0
        /\ \A col \in TrackedMetrics :
              Cardinality(Reporting(col)) = 2 => col \in DOMAIN peer_stats
        /\ ScenarioDValues =>
              /\ "pe_ratio" \in DOMAIN peer_stats
              /\ peer_stats["pe_ratio"].outliers_removed = 1
              /\ peer_stats["pe_ratio"].count = 4
              /\ peer_stats["pe_ratio"].median = Cents(1000)

\* Scenario D has been aggregated, in some order of its peers: the value 1000
\* was removed and the median of the four others is 10.
C14_Witness ==
    /\ Aggregated
    /\ ScenarioDValues
    /\ reordered
    /\ peer_stats["pe_ratio"].outliers_removed = 1
    /\ peer_stats["pe_ratio"].median = Cents(1000)

----------------------------------------------------------------------------
(* The sanity flag (SpecValuator) *)

InScenarioB == target_metrics = ScenarioB[1] /\ peer_stats = ScenarioB[2]

\* C15: a component's sanity_check_applied is true exactly when the
\* sanity-check stage returned a price different from the quality-adjusted
\* price (base price times quality multiplier); peers with P/E 10, 12, 11, a
\* target EPS of 2 and a current price of 100 give base price 22, final price
\* 25 and the flag set.
C15_SanityFlagTellsChange ==
    Valuated =>
        /\ \A m \in DOMAIN valuation_components :
              /\ sanity[m].adjusted = Mul(sanity[m].base, quality_adjustment)
              /\ valuation_components[m].sanity_check_applied
                    <=> (sanity[m].final # sanity[m].adjusted)
        /\ InScenarioB =>
              /\ DOMAIN valuation_components = {"pe_valuation"}
              /\ valuation_components["pe_valuation"].peer_median_multiple = Cents(1100)
              /\ valuation_components["pe_valuation"].base_value_price = Cents(2200)
              /\ valuation_components["pe_valuation"].value_price = Cents(2500)
              /\ valuation_components["pe_valuation"].sanity_check_applied

\* Scenario B has been valued, and its price was raised to the band's floor.
C15_Witness ==
    /\ Valuated
    /\ InScenarioB
    /\ quality_adjustment = SCALE
    /\ sanity["pe_valuation"].adjusted = Cents(2200)
    /\ sanity["pe_valuation"].final = Cents(2500)
    /\ valuation_components["pe_valuation"].sanity_check_applied

----------------------------------------------------------------------------
(* Confidence and the blender's fallback (SpecValuator) *)

\* The peer statistics column behind a component.
ColumnOf(m) ==
    CASE m = "pe_valuation" -> "pe_ratio"
      [] m = "pb_valuation" -> "pb_ratio"
      [] m = "ps_valuation" -> "ps_ratio"

\* C16: every emitted component has confidence min(100, 20 x peer sample
\* count of its multiple), between 20 and 100; so the blender's total weight
\* over the valuator's components is strictly positive and the unweighted
\* fallback is never taken.
C16_ConfidencePositive ==
    Valuated =>
        /\ \A m \in Fired :
              /\ valuation_components[m].confidence
                    = Min(100, 20 * peer_stats[ColumnOf(m)].count)
              /\ valuation_components[m].confidence >= 20
              /\ valuation_components[m].confidence <= 100
        /\ Fired # {} => TotalConfidence > 0
        /\ composite_branch(valuation_components) # "simple_average"

\* Several components have been blended by confidence, one of them resting
\* on two peers only and another on five.
C16_Witness ==
    /\ pc = "blended"
    /\ method = "COMPOSITE"
    /\ composite_branch(valuation_components) = "weighted_average"
    /\ \E m \in Fired : valuation_components[m].confidence = 40
    /\ \E m \in Fired : valuation_components[m].confidence = 100

----------------------------------------------------------------------------
(* The order of the insights (SpecInsights) *)

Explained == pc = "explained"

\* The rule an insight comes from, told by its text: 1 methods, 2 quality,
\* 3 sanity cap, 4 outliers, 5 ROE, 6 debt-to-equity, 7 price, 8 confidence.
RuleOf(insight) ==
    CASE insight[1] = "Valuation based on {n} method(s): {names}" -> 1
      [] insight[1] \in {"Quality premium applied: {pct}% (superior ROE/D/E vs peers)",
                         "Quality discount applied: {pct}% (inferior ROE/D/E vs peers)",
                         "Quality metrics in line with peer average"} -> 2
      [] insight[1] = "Extreme valuations detected and capped for reasonableness" -> 3
      [] insight[1] = "Peer data cleaned: {info} removed" -> 4
      [] insight[1] \in {"Strong ROE: {roe}% vs peer median {median}%",
                         "Below-average ROE: {roe}% vs peer median {median}%"} -> 5
      [] insight[1] \in {"Conservative debt level: {de} vs peer median {median}",
                         "High debt level: {de} vs peer median {median}"} -> 6
      [] insight[1] \in {"Stock appears undervalued by {pct}%",
                         "Stock appears overvalued by {pct}%",
                         "Stock appears fairly valued relative to peers"} -> 7
      [] insight[1] \in {"{method} valuation has high confidence ({confidence}%)",
                         "{method} valuation has lower confidence due to limited peer data"} -> 8
      [] OTHER -> 0

RulePresent(k) == \E i \in 1..Len(insights) : RuleOf(insights[i]) = k

\* The methods that deserve a confidence note, in the order of the components.
NotedMethods ==
    SelectSeq(<<"pe_valuation", "pb_valuation", "ps_valuation">>,
              LAMBDA m : /\ m \in Fired
                         /\ \/ valuation_components[m].confidence >= 80
                            \/ valuation_components[m].confidence < 60)

MethodTitle(m) ==
    CASE m = "pe_valuation" -> "Pe Valuation"
      [] m = "pb_valuation" -> "Pb Valuation"
      [] m = "ps_valuation" -> "Ps Valuation"

ConfidenceNotes == SelectSeq(insights, LAMBDA x : RuleOf(x) = 8)

\* C17: without components the insights are the single insufficient-data
\* message; otherwise the methods list comes first and the other insights
\* follow in rule order (quality, sanity cap, outliers, ROE, debt-to-equity,
\* price, confidence notes), each rule contributing only when its gate holds.
C17_InsightsInRuleOrder ==
    Explained =>
        IF Fired = {}
        THEN insights = << <<"Insufficient data for peer-based valuation">> >>
        ELSE /\ RuleOf(insights[1]) = 1
             /\ \A i \in 1..Len(insights) : RuleOf(insights[i]) # 0
             /\ \A i, j \in 1..Len(insights) :
                   i < j => /\ RuleOf(insights[i]) <= RuleOf(insights[j])
                            /\ RuleOf(insights[i]) = RuleOf(insights[j])
                                  => RuleOf(insights[i]) = 8
             /\ RulePresent(2)
             /\ RulePresent(3) <=> \E m \in Fired : valuation_components[m].sanity_check_applied
             /\ RulePresent(4) <=>
                   \E col \in {"pe_ratio", "pb_ratio", "ps_ratio"} \cap DOMAIN peer_stats :
                       peer_stats[col].outliers_removed > 0
             /\ RulePresent(5) => target_metrics.roe # None /\ "roe" \in DOMAIN peer_stats
             /\ RulePresent(6) => /\ target_metrics.debt_to_equity # None
                                  /\ "debt_to_equity" \in DOMAIN peer_stats
             /\ RulePresent(7) <=> /\ target_metrics.current_price \notin {None, 0}
                                   /\ calculated_value_price \notin {None, 0}
             /\ Len(ConfidenceNotes) = Len(NotedMethods)
             /\ \A k \in 1..Len(NotedMethods) :
                   ConfidenceNotes[k][2] = MethodTitle(NotedMethods[k])

\* All eight rules have contributed, the confidence rule for two methods.
C17_Witness ==
    /\ Explained
    /\ \A k \in 1..8 : RulePresent(k)
    /\ Len(ConfidenceNotes) = 2
    /\ Len(insights) = 9

----------------------------------------------------------------------------
(* The cache (SpecCache) *)

\* The get just made found an entry whose age has reached cache_duration.
FoundExpired ==
    /\ last_get # <<>>
    /\ last_get[1].ticker \in DOMAIN last_get[1].before
    /\ now - last_get[1].before[last_get[1].ticker].timestamp >= CacheTicks

\* C18: get(ticker) returns a record only if it is the record of the most
\* recent set for that ticker, no clear happened since, and strictly less than
\* cache_duration has elapsed since that set; a get that finds an expired
\* entry returns nothing and removes that entry, leaving the entries of the
\* other tickers unchanged.
C18_CacheReturnsOnlyFreshEntries ==
    last_get # <<>> =>
        LET tk == last_get[1].ticker
            before == last_get[1].before
            after == last_get[1].after
        IN  /\ last_get[1].returned # <<>> =>
                  /\ tk \in DOMAIN last_set
                  /\ last_get[1].returned[1] = last_set[tk].data
                  /\ now - last_set[tk].timestamp < CacheTicks
            /\ FoundExpired =>
                  /\ last_get[1].returned = <<>>
                  /\ tk \notin DOMAIN after
                  /\ DOMAIN after = DOMAIN before \ {tk}
                  /\ \A k \in DOMAIN after : after[k] = before[k]
            /\ after = cache

\* A get found an expired entry while another ticker's entry was cached.
C18_Witness ==
    /\ FoundExpired
    /\ last_get[1].returned = <<>>
    /\ DOMAIN cache # {}
    /\ last_get[1].ticker \in DOMAIN last_set

----------------------------------------------------------------------------
(* The returned price against the current price (Spec) *)

\* The request returned a result for a positive current price with at least
\* one component.
ReturnedWithComponents ==
    /\ pc = "returned"
    /\ result[1].current_price # None
    /\ result[1].current_price > 0
    /\ DOMAIN result[1].valuation_components # {}

PriceInsights(key_insights) ==
    SelectSeq(key_insights, LAMBDA insight : RuleOf(insight) = 7)

\* C19: a result returned for a positive current price with at least one
\* component has calculated_value_price <= 0.6 x current_price; a price insight
\* in it is the "overvalued" one, never "undervalued" or "fairly valued".
C19_ReturnedPriceAtMostSixTenths ==
    ReturnedWithComponents =>
        /\ result[1].calculated_value_price # None
        /\ result[1].calculated_value_price
              <= Mul(result[1].current_price, (6 * SCALE) \div 10)
        /\ \A i \in 1..Len(result[1].key_insights) :
              RuleOf(result[1].key_insights[i]) = 7 =>
                  result[1].key_insights[i][1] = "Stock appears overvalued by {pct}%"
        /\ Len(PriceInsights(result[1].key_insights)) <= 1

\* A blended price above the current price is returned as 0.6 x current price
\* and reported as overvalued.
C19_Witness ==
    /\ ReturnedWithComponents
    /\ calculate_composite_value_price(valuation_components)[1] > result[1].current_price
    /\ result[1].calculated_value_price = Mul(result[1].current_price, (6 * SCALE) \div 10)
    /\ Len(PriceInsights(result[1].key_insights)) = 1

----------------------------------------------------------------------------
(* The peers handed to the valuation (Spec) *)

\* get_peers has returned for this request.
PeersReturned == \E i \in 1..Len(calls) : calls[i] = <<"get_peers">>

\* C20: the list returned by get_peers holds at most num_peers tickers and
\* never the target ticker itself, compared case-insensitively.
C20_PeersBoundedAndExcludeTarget ==
    PeersReturned =>
        /\ Len(peer_tickers) <= num_peers
        /\ \A i \in 1..Len(peer_tickers) : Upper(peer_tickers[i]) # Upper(ticker)

----------------------------------------------------------------------------
(* The ROE comparison of the insights (SpecInsights) *)

HasInsight(text) == \E i \in 1..Len(insights) : insights[i][1] = text

StrongRoe == HasInsight("Strong ROE: {roe}% vs peer median {median}%")

BelowAverageRoe == HasInsight("Below-average ROE: {roe}% vs peer median {median}%")

\* generate_insights was given components, and a target whose ROE equals the
\* peer ROE median.
RoeAtPeerMedian ==
    /\ Explained
    /\ DOMAIN valuation_components # {}
    /\ target_metrics.roe # None
    /\ "roe" \in DOMAIN peer_stats
    /\ target_metrics.roe = peer_stats["roe"].median

\* C21: with a non-empty components map the "Strong ROE" and "Below-average
\* ROE" insights are never both emitted, and a target whose ROE equals the
\* peer ROE median gets neither, whatever the sign of the median.
C21_RoeAtMedianGetsNoInsight ==
    (Explained /\ DOMAIN valuation_components # {}) =>
        /\ ~(StrongRoe /\ BelowAverageRoe)
        /\ RoeAtPeerMedian => (~StrongRoe /\ ~BelowAverageRoe)

====
